---- MODULE Spec2Model ----
(***************************************************************************)
(* Allocation and classification engine of ProcesadorPedidos.procesar      *)
(* (src/app.py; the loop of src/main.py is the same code with other column *)
(* names).  The order table is the sequence `pedidos` in processing order, *)
(* the two stock pools are the dictionaries mapa_inventario and            *)
(* mapa_transito.  One step of the for-loop is one action; the             *)
(* classification that follows the loop is one action.  Specification     *)
(* Spec starts at the loop with any table and pools; SpecPedidos and       *)
(* SpecInventarios start from the loaded tables and run steps 2-6 first.   *)
(***************************************************************************)
EXTENDS Integers, Sequences, FiniteSets

(* ---------------------------------------------------------------------- *)
(* Bounds of the model                                                     *)
(* ---------------------------------------------------------------------- *)
MaxLineas == 2
MaxRegistros == 3
MaxTics == 4

Materiales == {"M1", "M2"}
Documentos == {"D1", "D2"}
Existencias == {0, 10}
Traslados == {0, 5}
Cantidades == {5, 8}
TiposMaterial == {"ZCOM", "ZFER"}
Plantas == {"P5", "P1"}

VARIABLES
    pedidos,          \* the order table, rows in processing order
    mapa_inventario,  \* on-hand pool: material -> remaining quantity
    mapa_transito,    \* in-transit pool: material -> remaining quantity
    inventario0,      \* on-hand pool as built, before the loop
    transito0,        \* in-transit pool as built, before the loop
    idx,              \* position of the for-loop (next row to process)
    pc,               \* "inicio" | "bucle" | "fin" | "error"
    completos,        \* the complete-orders view (step 10)
    incompletos,      \* the incomplete-orders view (step 10)
    pedidos0,         \* the order table as loaded (step 1)
    inventarios,      \* the inventory table
    inventarios0,     \* the inventory table as loaded (step 1)
    mapeo_marcas,     \* brand override: requester -> brand
    reporte_marcas,   \* the brand report: brand -> its row
    columnas,         \* the columns present in the input files
    cache,            \* InMemoryCacheManager._cache: key -> stored value
    expiry,           \* InMemoryCacheManager._expiry: key -> expiry time
    reloj,            \* datetime.now(), in seconds
    ultimo,           \* history: key -> the most recent set on it (value, ttl, time)
    retorno           \* the last call on the cache manager and what it returned

vars == <<pedidos, mapa_inventario, mapa_transito, inventario0, transito0, idx, pc,
          completos, incompletos, pedidos0, inventarios, inventarios0, mapeo_marcas,
          reporte_marcas, columnas, cache, expiry, reloj, ultimo, retorno>>

(* ---------------------------------------------------------------------- *)
(* Inputs                                                                  *)
(* ---------------------------------------------------------------------- *)

MARCA_PRIVADA == "Marca privada Exp."
MARCA_AMERICANA == "Producto de Catalogo Americano"

\* A row of the order table right before the loop: the input columns and the
\* six computed columns with their initial values.
FilaInicial(doc, mat, cant, tipo, planta) ==
    [ DocVentas        |-> doc,
      Descripcion      |-> MARCA_PRIVADA,
      Material         |-> mat,
      Pendiente        |-> cant,
      TipoMaterial     |-> tipo,
      Planta           |-> planta,
      Inventario       |-> 0,
      Transito         |-> 0,
      Faltante         |-> 0,
      FaltanteTransito |-> 0,
      Estatus          |-> "",
      HorarioEntrega   |-> "" ]

FilasIniciales ==
    { FilaInicial(doc, mat, cant, tipo, planta) :
        doc \in Documentos, mat \in Materiales, cant \in Cantidades,
        tipo \in TiposMaterial, planta \in Plantas }

\* The inventory table after step 3, one record per material: both pools are
\* built from the same table and have the same keys.
TablasInventario ==
    UNION { [S -> [Disponible : Existencias, Traslado : Traslados]] :
              S \in SUBSET Materiales }

(* ---------------------------------------------------------------------- *)
(* The body of the for-loop                                                *)
(* ---------------------------------------------------------------------- *)

\* if row.get('Tipo material') == 'ZCOM' ... elif row.get('Planta') == 'P5' ...
MarcarBypass(row) ==
    IF row.TipoMaterial = "ZCOM"
    THEN [row EXCEPT !.Faltante = 0, !.FaltanteTransito = 0, !.HorarioEntrega = "ZCOM"]
    ELSE IF row.Planta = "P5"
    THEN [row EXCEPT !.Faltante = 0, !.FaltanteTransito = 0, !.HorarioEntrega = "P5/Expo"]
    ELSE row

\* Faltante written by the on-hand branch
FaltanteInventario(disponible, cantidad) ==
    IF disponible >= cantidad THEN 0 ELSE cantidad - disponible

\* Variant: the pool keeps its value, so a later line sees stock already claimed
RestoInventario_SinDescontar(disponible, cantidad) ==
    disponible

\* Variant: the pool is not clamped at zero
RestoInventario_SinTope(disponible, cantidad) ==
    disponible - cantidad

\* Variant: the shortage is written to the pool
RestoInventario_Faltante(disponible, cantidad) ==
    IF disponible >= cantidad THEN disponible - cantidad ELSE cantidad - disponible

\* Variant: a pool that cannot cover the line keeps its value
RestoInventario_SinAgotar(disponible, cantidad) ==
    IF disponible >= cantidad THEN disponible - cantidad ELSE disponible

\* mapa_inventario[material] written by the on-hand branch
RestoInventario(disponible, cantidad) ==
    IF disponible >= cantidad THEN disponible - cantidad ELSE 0

\* Variant: the transit stock is not subtracted from the shortage
FaltanteConTransito_SinRestar(transito, faltante_actual) ==
    IF transito >= faltante_actual THEN 0 ELSE faltante_actual

\* Faltante Transito written by the transit branch
FaltanteConTransito(transito, faltante_actual) ==
    IF transito >= faltante_actual THEN 0 ELSE faltante_actual - transito

\* mapa_transito[material] written by the transit branch
RestoTransito(transito, faltante_actual) ==
    IF transito >= faltante_actual THEN transito - faltante_actual ELSE 0

\* Variant: the line is charged to every material of the pool
AsignarInventario_TodosLosMateriales(row, inv) ==
    IF row.Material \in DOMAIN inv
    THEN [ row |-> [row EXCEPT
                      !.Inventario = inv[row.Material],
                      !.Faltante = FaltanteInventario(inv[row.Material], row.Pendiente)],
           mapa |-> [ m \in DOMAIN inv |-> RestoInventario(inv[m], row.Pendiente) ] ]
    ELSE [ row |-> row, mapa |-> inv ]

\* if material in mapa_inventario: ...
AsignarInventario(row, inv) ==
    IF row.Material \in DOMAIN inv
    THEN [ row |-> [row EXCEPT
                      !.Inventario = inv[row.Material],
                      !.Faltante = FaltanteInventario(inv[row.Material], row.Pendiente)],
           mapa |-> [inv EXCEPT
                      ![row.Material] = RestoInventario(inv[row.Material], row.Pendiente)] ]
    ELSE [ row |-> row, mapa |-> inv ]

\* if material in mapa_transito: ...
AsignarTransito(row, tra) ==
    IF row.Material \in DOMAIN tra
    THEN [ row |-> [row EXCEPT
                      !.Transito = tra[row.Material],
                      !.FaltanteTransito = FaltanteConTransito(tra[row.Material], row.Faltante)],
           mapa |-> [tra EXCEPT
                      ![row.Material] = RestoTransito(tra[row.Material], row.Faltante)] ]
    ELSE [ row |-> row, mapa |-> tra ]

\* The body of the loop for one row: the row and the pools it leaves
PasoLinea(row, inv, tra) ==
    LET r1 == MarcarBypass(row)
        a  == AsignarInventario(r1, inv)
        t  == AsignarTransito(a.row, tra)
    IN [ row |-> t.row, inv |-> a.mapa, tra |-> t.mapa ]

RECURSIVE Bucle(_, _, _, _)
\* for idx, row in pedidos.iterrows(), from row k on
Bucle(tabla, inv, tra, k) ==
    IF k > Len(tabla) THEN [ tabla |-> tabla, inv |-> inv, tra |-> tra ]
    ELSE LET p == PasoLinea(tabla[k], inv, tra)
         IN Bucle([tabla EXCEPT ![k] = p.row], p.inv, p.tra, k + 1)

(* ---------------------------------------------------------------------- *)
(* Classification after the loop (step 9)                                  *)
(* ---------------------------------------------------------------------- *)

RECURSIVE SumaFaltantesTransito(_, _, _)
\* pedidos.groupby('Pedido')['Faltante Transito'].sum(), for one order
SumaFaltantesTransito(tabla, doc, n) ==
    IF n = 0 THEN 0
    ELSE SumaFaltantesTransito(tabla, doc, n - 1)
         + (IF tabla[n].DocVentas = doc THEN tabla[n].FaltanteTransito ELSE 0)

\* Variant: the shortages are summed over the whole table, not per order
EstatusPedido_SinAgrupar(tabla, doc) ==
    IF \A k \in 1..Len(tabla) : tabla[k].FaltanteTransito = 0
    THEN "Completo" ELSE "Incompleto"

\* 'Completo' if x in pedidos_completos else 'Incompleto'
EstatusPedido(tabla, doc) ==
    IF SumaFaltantesTransito(tabla, doc, Len(tabla)) = 0 THEN "Completo" ELSE "Incompleto"

\* Variant: the tag is set for every line with a shortage
HorarioFinal_SoloFaltante(row) ==
    IF row.Faltante > 0 THEN "Transito" ELSE row.HorarioEntrega

\* pedidos.loc[(Faltante > 0) & (Faltante Transito == 0), 'Horario Entrega'] = 'Transito'
HorarioFinal(row) ==
    IF row.Faltante > 0 /\ row.FaltanteTransito = 0 THEN "Transito" ELSE row.HorarioEntrega

Clasificada(tabla) ==
    [ k \in 1..Len(tabla) |->
        [tabla[k] EXCEPT !.Estatus = EstatusPedido(tabla, tabla[k].DocVentas),
                         !.HorarioEntrega = HorarioFinal(tabla[k])] ]

(* ---------------------------------------------------------------------- *)
(* Steps 2-6: filter, inventory preparation, brand override, sort, pools   *)
(* ---------------------------------------------------------------------- *)

MARCAS_PERMITIDAS == {MARCA_PRIVADA, MARCA_AMERICANA}
CENTROS_REQUERIDOS == {"EXPO", "LARE"}

\* Customer names of the model and those that contain 'James Palin'
\* (str.contains is case-sensitive)
Clientes == {"Ferreteria James Palin SA", "Cliente Uno"}
ContieneJamesPalin(nombre) == nombre \in {"James Palin", "Ferreteria James Palin SA"}

\* Variant: the customer name is not looked at
Sobrevive_SinCliente(row) ==
    /\ row.Muestra # "X"
    /\ row.Descripcion \in MARCAS_PERMITIDAS

\* The row mask of step 2
Sobrevive(row) ==
    /\ row.Muestra # "X"
    /\ row.Descripcion \in MARCAS_PERMITIDAS
    /\ ~ContieneJamesPalin(row.Nombre1)

\* pedidos = pedidos[mask]
FiltrarPedidos(tabla) == SelectSeq(tabla, Sobrevive)

\* Variant: the ND records stay in the table
FiltrarND_SinFiltro(inv) == inv

\* inventarios[inventarios['Carac. Planif.'] != 'ND']
FiltrarND(inv) ==
    LET NoEsND(reg) == reg.Carac # "ND"
    IN SelectSeq(inv, NoEsND)

\* inventarios.groupby('Material')['Centro'].apply(set), for one material
CentrosDe(inv, mat) == { inv[k].Centro : k \in { j \in 1..Len(inv) : inv[j].Material = mat } }

\* Variant: a material at EXPO is enough
MaterialesValidos_SoloExpo(inv) ==
    { inv[k].Material : k \in { j \in 1..Len(inv) : inv[j].Centro = "EXPO" } }

\* Materials whose set of centers is a superset of CENTROS_REQUERIDOS
MaterialesValidos(inv) ==
    { mat \in { inv[k].Material : k \in 1..Len(inv) } :
        CENTROS_REQUERIDOS \subseteq CentrosDe(inv, mat) }

\* Step 3: the ND filter and the removal of the EXPO record of valid materials
PrepararInventarios(inv) ==
    LET nd == FiltrarND(inv)
        validos == MaterialesValidos(nd)
        SeQueda(reg) == ~(reg.Material \in validos /\ reg.Centro = "EXPO")
    IN SelectSeq(nd, SeQueda)

\* Variant: the first record of the material wins
UltimoRegistro_Primero(inv, mat) ==
    CHOOSE k \in 1..Len(inv) :
        /\ inv[k].Material = mat
        /\ \A j \in 1..(k - 1) : inv[j].Material # mat

\* Position of the last record of a material in the inventory table
UltimoRegistro(inv, mat) ==
    CHOOSE k \in 1..Len(inv) :
        /\ inv[k].Material = mat
        /\ \A j \in (k + 1)..Len(inv) : inv[j].Material # mat

\* inventarios.set_index('Material')['Disponible'].to_dict()
MapaInventario(inv) ==
    [ mat \in { inv[k].Material : k \in 1..Len(inv) } |->
        inv[UltimoRegistro(inv, mat)].Disponible ]

\* inventarios.set_index('Material')['Traslado'].to_dict()
MapaTransito(inv) ==
    [ mat \in { inv[k].Material : k \in 1..Len(inv) } |->
        inv[UltimoRegistro(inv, mat)].Traslado ]

\* Variant: the brand of the order record is kept
ActualizarMarcas_SinMapeo(tabla, mapeo) == tabla

\* Step 4: pedidos['Solic.'].map(mapeo_marcas).fillna(pedidos['Descripcion'])
ActualizarMarcas(tabla, mapeo) ==
    [ k \in 1..Len(tabla) |->
        [tabla[k] EXCEPT !.Descripcion =
            IF tabla[k].Solic \in DOMAIN mapeo THEN mapeo[tabla[k].Solic] ELSE @] ]

\* lambda x: 0 if x == 'Producto de Catalogo Americano' else 1
MarcaPrioridad(marca) == IF marca = MARCA_AMERICANA THEN 0 ELSE 1

\* Order of the order identifiers
RangoDocumento == [ d \in Documentos |-> IF d = "D1" THEN 1 ELSE 2 ]

\* Variant: the order identifier is not a sort key
ClaveMenor_SinDocumento(a, b) ==
    \/ a.Embarque < b.Embarque
    \/ /\ a.Embarque = b.Embarque
       /\ MarcaPrioridad(a.Descripcion) < MarcaPrioridad(b.Descripcion)

\* a sorts strictly before b by ['Embarque', 'Doc.ventas', 'Marca Prioridad']
ClaveMenor(a, b) ==
    \/ a.Embarque < b.Embarque
    \/ /\ a.Embarque = b.Embarque
       /\ RangoDocumento[a.DocVentas] < RangoDocumento[b.DocVentas]
    \/ /\ a.Embarque = b.Embarque
       /\ a.DocVentas = b.DocVentas
       /\ MarcaPrioridad(a.Descripcion) < MarcaPrioridad(b.Descripcion)

\* Variant: a row goes before the rows of equal key
Insertar_AntesDeIguales(ordenada, row) ==
    LET p == Cardinality({ k \in 1..Len(ordenada) : ClaveMenor(ordenada[k], row) })
    IN SubSeq(ordenada, 1, p) \o <<row>> \o SubSeq(ordenada, p + 1, Len(ordenada))

\* A row enters a sorted table after the rows whose key is not greater
Insertar(ordenada, row) ==
    LET p == Cardinality({ k \in 1..Len(ordenada) : ~ClaveMenor(row, ordenada[k]) })
    IN SubSeq(ordenada, 1, p) \o <<row>> \o SubSeq(ordenada, p + 1, Len(ordenada))

RECURSIVE Ordenar(_)
\* Step 5: pedidos.sort_values(['Embarque', 'Doc.ventas', 'Marca Prioridad'])
Ordenar(tabla) ==
    IF tabla = << >> THEN << >>
    ELSE Insertar(Ordenar(SubSeq(tabla, 1, Len(tabla) - 1)), tabla[Len(tabla)])

\* Variant: the table is sorted before the brands are overridden
PedidosPreparados_OrdenAntes(tabla, mapeo) ==
    ActualizarMarcas(Ordenar(FiltrarPedidos(tabla)), mapeo)

\* Steps 2, 4 and 5 on the order table
PedidosPreparados(tabla, mapeo) ==
    Ordenar(ActualizarMarcas(FiltrarPedidos(tabla), mapeo))

\* Step 6: the computed columns with their initial values
FilaPreparada(row) ==
    [ Indice           |-> row.Indice,
      Muestra          |-> row.Muestra,
      Descripcion      |-> row.Descripcion,
      Nombre1          |-> row.Nombre1,
      Solic            |-> row.Solic,
      Embarque         |-> row.Embarque,
      DocVentas        |-> row.DocVentas,
      Material         |-> row.Material,
      Pendiente        |-> row.Pendiente,
      TipoMaterial     |-> row.TipoMaterial,
      Planta           |-> row.Planta,
      Inventario       |-> 0,
      Transito         |-> 0,
      Faltante         |-> 0,
      FaltanteTransito |-> 0,
      Estatus          |-> "",
      HorarioEntrega   |-> "" ]

(* ---------------------------------------------------------------------- *)
(* Order status of src/main.py                                             *)
(* ---------------------------------------------------------------------- *)

\* main.py procesar step 9: 'Completo' if row['Faltante'] == 0 else 'Incompleto'
EstatusLineaMain(row) == IF row.Faltante = 0 THEN "Completo" ELSE "Incompleto"

\* aplicar_filtros_y_contar: 'Completo' if all(x == 'Completo') else 'Incompleto'
EstadoPedidoMain(tabla, doc) ==
    IF \A k \in 1..Len(tabla) :
          tabla[k].DocVentas = doc => EstatusLineaMain(tabla[k]) = "Completo"
    THEN "Completo" ELSE "Incompleto"

(* ---------------------------------------------------------------------- *)
(* Output views (step 10)                                                  *)
(* ---------------------------------------------------------------------- *)

\* The columns of the complete view the model carries
ColumnasCompletos(row) ==
    [ DocVentas |-> row.DocVentas, HorarioEntrega |-> row.HorarioEntrega ]

RECURSIVE DropDuplicates(_)
\* drop_duplicates(subset=['Pedido']): keep the first row of every order
DropDuplicates(tabla) ==
    IF tabla = << >> THEN << >>
    ELSE LET n == Len(tabla)
             antes == DropDuplicates(SubSeq(tabla, 1, n - 1))
         IN IF \E j \in 1..(n - 1) : tabla[j].DocVentas = tabla[n].DocVentas
            THEN antes
            ELSE Append(antes, tabla[n])

\* Variant: the duplicates of an order are not dropped
VistaCompletos_SinDropDuplicates(tabla) ==
    LET EsCompleto(row) == row.Estatus = "Completo"
        sel == SelectSeq(tabla, EsCompleto)
    IN [ k \in 1..Len(sel) |-> ColumnasCompletos(sel[k]) ]

\* completos = pedidos[Estatus == 'Completo'][columnas].drop_duplicates(subset=['Pedido'])
VistaCompletos(tabla) ==
    LET EsCompleto(row) == row.Estatus = "Completo"
        sel == DropDuplicates(SelectSeq(tabla, EsCompleto))
    IN [ k \in 1..Len(sel) |-> ColumnasCompletos(sel[k]) ]

\* Variant: only the lines tagged 'Transito' are listed
VistaIncompletos_SoloTransito(tabla) ==
    LET Falta(row) == row.Estatus = "Incompleto" /\ row.HorarioEntrega = "Transito"
    IN SelectSeq(tabla, Falta)

\* Variant: every line of an incomplete order is listed
VistaIncompletos_TodasLasLineas(tabla) ==
    LET Falta(row) == row.Estatus = "Incompleto"
    IN SelectSeq(tabla, Falta)

\* incompletos = pedidos[(Estatus == 'Incompleto') & ((Faltante > 0) | (Horario == 'Transito'))]
VistaIncompletos(tabla) ==
    LET Falta(row) == /\ row.Estatus = "Incompleto"
                      /\ (row.Faltante > 0 \/ row.HorarioEntrega = "Transito")
    IN SelectSeq(tabla, Falta)

(* ---------------------------------------------------------------------- *)
(* Brand report (generar_reporte_marcas)                                   *)
(* ---------------------------------------------------------------------- *)

\* A cell of the report: a number, NaN or inf. Percentages are kept in
\* hundredths, the two decimals of round(2).
Num(n) == [clase |-> "num", valor |-> n]
NaN == [clase |-> "nan", valor |-> 0]
Inf == [clase |-> "inf", valor |-> 0]

\* Step 8, for the columns the report reads: rename(columns=COLUMNAS_SALIDA)
Renombrada(row) ==
    [ Pedido |-> row.DocVentas, Marca |-> row.Descripcion, CtdSol |-> row.Pendiente,
      Faltante |-> row.Faltante, Estatus |-> row.Estatus ]

\* groupby('Marca')['Pedido'].nunique() over the rows of one status; a brand
\* without such rows has no entry and reads NaN in the report
PedidosPorMarca(filas, marca, estatus) ==
    LET S == { filas[k].Pedido : k \in { j \in 1..Len(filas) :
                   filas[j].Marca = marca /\ filas[j].Estatus \in estatus } }
    IN IF S = {} THEN NaN ELSE Num(Cardinality(S))

RECURSIVE SumaMarca(_, _, _, _)
\* groupby('Marca')[col].sum(), over the first k rows
SumaMarca(filas, marca, col, k) ==
    IF k = 0 THEN 0
    ELSE (IF filas[k].Marca = marca THEN filas[k][col] ELSE 0)
            + SumaMarca(filas, marca, col, k - 1)

\* Variant: a zero divisor is a fault
Porcentaje_DivisionPorCero(a, b) ==
    IF a.clase = "nan" \/ b.clase = "nan" THEN NaN
    ELSE IF b.valor = 0 THEN [clase |-> "error", valor |-> 0]
    ELSE Num((a.valor * 20000 + b.valor) \div (2 * b.valor))

\* (a / b * 100).round(2) on Series: 0/0 is NaN and x/0 is inf, no exception
Porcentaje(a, b) ==
    IF a.clase = "nan" \/ b.clase = "nan" THEN NaN
    ELSE IF b.valor = 0 THEN (IF a.valor = 0 THEN NaN ELSE Inf)
    ELSE Num((a.valor * 20000 + b.valor) \div (2 * b.valor))

\* generar_reporte_marcas: one row per brand of the table
ReporteMarcas(filas) ==
    [ marca \in { filas[k].Marca : k \in 1..Len(filas) } |->
        LET total == PedidosPorMarca(filas, marca, {"Completo", "Incompleto", ""})
            comp  == PedidosPorMarca(filas, marca, {"Completo"})
            inc   == PedidosPorMarca(filas, marca, {"Incompleto"})
            valor == Num(SumaMarca(filas, marca, "CtdSol", Len(filas)))
            falta == Num(SumaMarca(filas, marca, "Faltante", Len(filas)))
        IN [ TotalPedidos       |-> total,
             PedidosCompletos   |-> comp,
             PedidosIncompletos |-> inc,
             PctCompletos       |-> Porcentaje(comp, total),
             PctIncompletos     |-> Porcentaje(inc, total),
             ValorTotal         |-> valor,
             ValorFaltante      |-> falta,
             PctFaltante        |-> Porcentaje(falta, valor) ] ]

\* generar_reporte_marcas(pedidos) on the renamed table
ReporteDe(tabla) == ReporteMarcas([ k \in 1..Len(tabla) |-> Renombrada(tabla[k]) ])

(* ---------------------------------------------------------------------- *)
(* Columns of the order file                                               *)
(* ---------------------------------------------------------------------- *)

ColumnasPedido ==
    { "Muestra", "Descripcion", "Nombre 1", "Solic.", "Doc.ventas", "Material",
      "Texto breve de material", "Tipo material", "Planta", " Pendiente",
      "Embarque", "Liberacion" }

\* Columns read with pedidos[...] in steps 2, 4 and 5
ColumnasPreparar ==
    { "Muestra", "Descripcion", "Nombre 1", "Solic.", "Embarque", "Doc.ventas" }

\* Columns read with row[...] in the loop
ColumnasBucle == { "Material", " Pendiente" }

\* Input columns among the keys of COLUMNAS_SALIDA, selected in step 8
ColumnasSalida ==
    { "Doc.ventas", "Descripcion", "Nombre 1", "Material", "Texto breve de material",
      " Pendiente", "Planta", "Embarque", "Liberacion" }

\* row.get('Tipo material'), row.get('Planta'): None when the column is absent
FilaLeida(row, cols) ==
    [row EXCEPT !.TipoMaterial = IF "Tipo material" \in cols THEN @ ELSE "None",
                !.Planta = IF "Planta" \in cols THEN @ ELSE "None"]

\* InMemoryCacheManager(): nothing stored
CacheVacio ==
    /\ cache = << >>
    /\ expiry = << >>
    /\ reloj = 0
    /\ ultimo = << >>
    /\ retorno = [ op |-> "None", clave |-> "None", hora |-> 0, hay |-> FALSE,
                   valor |-> "None" ]

(* ---------------------------------------------------------------------- *)
(* State machine                                                           *)
(* ---------------------------------------------------------------------- *)

Init ==
    /\ \E n \in 0..MaxLineas : pedidos \in [1..n -> FilasIniciales]
    /\ \E inv \in TablasInventario :
         /\ mapa_inventario = [m \in DOMAIN inv |-> inv[m].Disponible]
         /\ mapa_transito = [m \in DOMAIN inv |-> inv[m].Traslado]
    /\ inventario0 = mapa_inventario
    /\ transito0 = mapa_transito
    /\ idx = 1
    /\ pc = "bucle"
    /\ completos = << >>
    /\ incompletos = << >>
    /\ pedidos0 = << >>
    /\ inventarios = << >>
    /\ inventarios0 = << >>
    /\ mapeo_marcas = << >>
    /\ reporte_marcas = << >>
    /\ columnas = ColumnasPedido
    /\ CacheVacio

\* One iteration of `for idx, row in pedidos.iterrows()`
ProcesarLinea ==
    /\ pc = "bucle"
    /\ idx <= Len(pedidos)
    /\ ColumnasBucle \subseteq columnas
    /\ LET p == PasoLinea(FilaLeida(pedidos[idx], columnas),
                          mapa_inventario, mapa_transito)
       IN /\ pedidos' = [pedidos EXCEPT ![idx] = p.row]
          /\ mapa_inventario' = p.inv
          /\ mapa_transito' = p.tra
    /\ idx' = idx + 1
    /\ UNCHANGED <<inventario0, transito0, pc, completos, incompletos,
                   pedidos0, inventarios, inventarios0, mapeo_marcas,
                   reporte_marcas, columnas, cache, expiry, reloj, ultimo, retorno>>

\* Steps 8-10 after the loop: order status, delivery-window tag, output views
Clasificar ==
    /\ pc = "bucle"
    /\ idx > Len(pedidos)
    /\ ColumnasSalida \subseteq columnas
    /\ pedidos' = Clasificada(pedidos)
    /\ completos' = VistaCompletos(Clasificada(pedidos))
    /\ incompletos' = VistaIncompletos(Clasificada(pedidos))
    /\ reporte_marcas' = ReporteDe(Clasificada(pedidos))
    /\ pc' = "fin"
    /\ UNCHANGED <<mapa_inventario, mapa_transito, inventario0, transito0, idx,
                   pedidos0, inventarios, inventarios0, mapeo_marcas,
                   columnas, cache, expiry, reloj, ultimo, retorno>>

Next == ProcesarLinea \/ Clasificar

Spec == Init /\ [][Next]_vars

TypeOK ==
    /\ pc \in {"inicio", "bucle", "fin", "error"}
    /\ idx \in 1..(Len(pedidos) + 1)
    /\ DOMAIN mapa_inventario = DOMAIN inventario0
    /\ DOMAIN mapa_transito = DOMAIN transito0
(* ---------------------------------------------------------------------- *)
(* The whole of procesar, from the loaded tables                           *)
(* ---------------------------------------------------------------------- *)

Solicitantes == {"S1", "S2"}
Embarques == {1, 2}
MarcasPedido == {MARCA_PRIVADA, MARCA_AMERICANA, "Marca X"}

\* The brand table of the model knows requester S1 at most
MapeosMarca ==
    UNION { [S -> {MARCA_AMERICANA, "Marca X"}] : S \in SUBSET {"S1"} }

\* Order records as loaded; a record has one reason to be filtered at most
FilasCrudas ==
    { r \in [ Muestra : {"X", ""}, Descripcion : MarcasPedido, Nombre1 : Clientes,
              Solic : Solicitantes, Embarque : Embarques, DocVentas : Documentos,
              Material : {"M1"}, Pendiente : {8},
              TipoMaterial : {"ZFER"}, Planta : {"P1"} ] :
        ~(r.Muestra = "X" /\ ContieneJamesPalin(r.Nombre1)) }

\* The row of the loaded table at index label i
ConIndice(r, i) ==
    [ Indice |-> i, Muestra |-> r.Muestra, Descripcion |-> r.Descripcion,
      Nombre1 |-> r.Nombre1, Solic |-> r.Solic, Embarque |-> r.Embarque,
      DocVentas |-> r.DocVentas, Material |-> r.Material, Pendiente |-> r.Pendiente,
      TipoMaterial |-> r.TipoMaterial, Planta |-> r.Planta ]

\* Inventory records as loaded: either 10 on hand and none in transit, or
\* none on hand and 5 in transit
RegistrosInventario ==
    { r \in [ Material : Materiales, Centro : {"EXPO", "LARE", "CEDI"},
              Carac : {"ND", "PD"}, Disponible : Existencias, Traslado : Traslados ] :
        r.Disponible = 0 <=> r.Traslado # 0 }

\* The record of the loaded inventory table at index label i
RegistroConIndice(r, i) ==
    [ Indice |-> i, Material |-> r.Material, Centro |-> r.Centro, Carac |-> r.Carac,
      Disponible |-> r.Disponible, Traslado |-> r.Traslado ]

\* Inventory used while the order records vary
InventarioFijo ==
    << [ Indice |-> 1, Material |-> "M1", Centro |-> "LARE", Carac |-> "PD",
         Disponible |-> 10, Traslado |-> 0 ] >>

\* Order records used while the inventory records vary
PedidosFijos ==
    << [ Indice |-> 1, Muestra |-> "", Descripcion |-> MARCA_AMERICANA,
         Nombre1 |-> "Cliente Uno", Solic |-> "S1", Embarque |-> 1, DocVentas |-> "D1",
         Material |-> "M1", Pendiente |-> 8, TipoMaterial |-> "ZFER", Planta |-> "P1" ],
       [ Indice |-> 2, Muestra |-> "", Descripcion |-> MARCA_PRIVADA,
         Nombre1 |-> "Cliente Uno", Solic |-> "S2", Embarque |-> 1, DocVentas |-> "D2",
         Material |-> "M2", Pendiente |-> 5, TipoMaterial |-> "ZFER", Planta |-> "P1" ] >>

\* State after step 1, the tables loaded and nothing computed
Cargado(tablaPedidos, tablaInventarios, mapeo) ==
    /\ pedidos = tablaPedidos
    /\ pedidos0 = tablaPedidos
    /\ inventarios = tablaInventarios
    /\ inventarios0 = tablaInventarios
    /\ mapeo_marcas = mapeo
    /\ mapa_inventario = << >>
    /\ mapa_transito = << >>
    /\ inventario0 = << >>
    /\ transito0 = << >>
    /\ idx = 1
    /\ pc = "inicio"
    /\ completos = << >>
    /\ incompletos = << >>
    /\ reporte_marcas = << >>
    /\ CacheVacio

InitPedidos ==
    /\ \E n \in 0..MaxLineas : \E t \in [1..n -> FilasCrudas] : \E mapeo \in MapeosMarca :
          Cargado([k \in 1..n |-> ConIndice(t[k], k)], InventarioFijo, mapeo)
    /\ columnas = ColumnasPedido

InitInventarios ==
    /\ \E n \in 0..MaxRegistros : \E inv \in [1..n -> RegistrosInventario] :
          Cargado(PedidosFijos, [k \in 1..n |-> RegistroConIndice(inv[k], k)], << >>)
    /\ columnas = ColumnasPedido

\* Steps 2-6 of procesar
PrepararDatos ==
    /\ pc = "inicio"
    /\ ColumnasPreparar \subseteq columnas
    /\ LET orden == PedidosPreparados(pedidos, mapeo_marcas)
           inv == PrepararInventarios(inventarios)
       IN /\ pedidos' = [ k \in 1..Len(orden) |-> FilaPreparada(orden[k]) ]
          /\ inventarios' = inv
          /\ mapa_inventario' = MapaInventario(inv)
          /\ mapa_transito' = MapaTransito(inv)
          /\ inventario0' = MapaInventario(inv)
          /\ transito0' = MapaTransito(inv)
    /\ idx' = 1
    /\ pc' = "bucle"
    /\ UNCHANGED <<completos, incompletos, pedidos0, inventarios0, mapeo_marcas,
                   reporte_marcas, columnas, cache, expiry, reloj, ultimo, retorno>>

NextProcesar == PrepararDatos \/ ProcesarLinea \/ Clasificar

\* procesar on varying order records and brand table
SpecPedidos == InitPedidos /\ [][NextProcesar]_vars

\* procesar on varying inventory records
SpecInventarios == InitInventarios /\ [][NextProcesar]_vars

\* pedidos[...] or row[...] on an absent column raises KeyError; the except
\* clause of procesar re-raises and nothing is returned
Fallar ==
    /\ \/ pc = "inicio" /\ ~(ColumnasPreparar \subseteq columnas)
       \/ pc = "bucle" /\ idx <= Len(pedidos) /\ ~(ColumnasBucle \subseteq columnas)
       \/ pc = "bucle" /\ idx > Len(pedidos) /\ ~(ColumnasSalida \subseteq columnas)
    /\ pc' = "error"
    /\ UNCHANGED <<pedidos, mapa_inventario, mapa_transito, inventario0, transito0,
                   idx, completos, incompletos, pedidos0, inventarios, inventarios0,
                   mapeo_marcas, reporte_marcas, columnas, cache, expiry, reloj, ultimo, retorno>>

NextColumnas == PrepararDatos \/ ProcesarLinea \/ Clasificar \/ Fallar

\* Order files that lack at most one column
InitColumnas ==
    /\ \E n \in 0..MaxLineas :
       \E t \in [1..n -> [ Muestra : {""}, Descripcion : {MARCA_PRIVADA},
                           Nombre1 : {"Cliente Uno"}, Solic : {"S2"}, Embarque : {1},
                           DocVentas : {"D1"}, Material : {"M1"}, Pendiente : {8},
                           TipoMaterial : TiposMaterial, Planta : Plantas ]] :
          Cargado([k \in 1..n |-> ConIndice(t[k], k)], InventarioFijo, << >>)
    /\ \E falta \in SUBSET ColumnasPedido :
          /\ Cardinality(falta) <= 1
          /\ columnas = ColumnasPedido \ falta

\* procesar on order files with a column missing
SpecColumnas == InitColumnas /\ [][NextColumnas]_vars

\* Order records of two brands, with lines of requested quantity 0
InitMarcas ==
    /\ \E n \in 0..MaxLineas :
       \E t \in [1..n -> [ Muestra : {""}, Descripcion : MARCAS_PERMITIDAS,
                           Nombre1 : {"Cliente Uno"}, Solic : {"S2"}, Embarque : {1},
                           DocVentas : Documentos, Material : {"M1"},
                           Pendiente : {0, 8}, TipoMaterial : {"ZFER"},
                           Planta : {"P1"} ]] :
          Cargado([k \in 1..n |-> ConIndice(t[k], k)], InventarioFijo, << >>)
    /\ columnas = ColumnasPedido

\* procesar and its brand report on brands without requested quantity
SpecMarcas == InitMarcas /\ [][NextProcesar]_vars

(* ---------------------------------------------------------------------- *)
(* ProcesarPedidosUseCase.execute and its cache                            *)
(* ---------------------------------------------------------------------- *)

TTL_CACHE == 3600

\* _generate_cache_key: the digests of the two files' contents, taken here
\* as the contents themselves (equal keys exactly for equal contents)
CacheKey(archivoPedidos, archivoInventarios) == <<archivoPedidos, archivoInventarios>>

\* Variant: nothing is ever found
CacheGet_SiempreVacio(c, e, key, ahora) ==
    [ hay |-> FALSE, valor |-> << >>, cache |-> c, expiry |-> e ]

\* Variant: the expiry time is not looked at
CacheGet_SinExpiracion(c, e, key, ahora) ==
    IF key \notin DOMAIN c
    THEN [ hay |-> FALSE, valor |-> << >>, cache |-> c, expiry |-> e ]
    ELSE [ hay |-> TRUE, valor |-> c[key], cache |-> c, expiry |-> e ]

\* InMemoryCacheManager.get: the value if stored and not expired; an expired
\* key is deleted from both maps
CacheGet(c, e, key, ahora) ==
    IF key \notin DOMAIN c
    THEN [ hay |-> FALSE, valor |-> << >>, cache |-> c, expiry |-> e ]
    ELSE IF key \in DOMAIN e /\ ahora > e[key]
    THEN [ hay |-> FALSE, valor |-> << >>,
           cache |-> [ k \in DOMAIN c \ {key} |-> c[k] ],
           expiry |-> [ k \in DOMAIN e \ {key} |-> e[k] ] ]
    ELSE [ hay |-> TRUE, valor |-> c[key], cache |-> c, expiry |-> e ]

\* Variant: the value is written to every key of the cache
CacheSet_TodasLasClaves(c, e, key, value, ttl, ahora) ==
    [ cache  |-> [ k \in DOMAIN c \cup {key} |-> value ],
      expiry |-> IF ttl # 0
                 THEN [ k \in DOMAIN e \cup {key} |->
                          IF k = key THEN ahora + ttl ELSE e[k] ]
                 ELSE e ]

\* InMemoryCacheManager.set: `if ttl:` writes the expiry, ttl None is 0 here
CacheSet(c, e, key, value, ttl, ahora) ==
    [ cache  |-> [ k \in DOMAIN c \cup {key} |-> IF k = key THEN value ELSE c[k] ],
      expiry |-> IF ttl # 0
                 THEN [ k \in DOMAIN e \cup {key} |->
                          IF k = key THEN ahora + ttl ELSE e[k] ]
                 ELSE e ]

\* The most recent set on every key: its value, its ttl and its time
Historial(u, key, value, ttl, ahora) ==
    [ k \in DOMAIN u \cup {key} |->
        IF k = key THEN [ valor |-> value, ttl |-> ttl, hora |-> ahora ] ELSE u[k] ]

\* np.maximum(0, x)
Maximum0(x) == IF x > 0 THEN x ELSE 0

\* defaultdict(float, ...)[mat]: 0.0 for a material without record
ValorMapa(mapa, mat) == IF mat \in DOMAIN mapa THEN mapa[mat] ELSE 0

\* The vectorised columns of execute for one row
FilaCasoUso(row, inv, tra) ==
    LET inventario == ValorMapa(inv, row.Material)
        transito   == ValorMapa(tra, row.Material)
        faltante   == Maximum0(row.Pendiente - inventario)
        conTrans   == Maximum0(faltante - transito)
    IN [ Indice |-> row.Indice, Muestra |-> row.Muestra, Descripcion |-> row.Descripcion,
         Nombre1 |-> row.Nombre1, Pedido |-> row.Pedido, Marca |-> row.Marca,
         Material |-> row.Material, Pendiente |-> row.Pendiente, CtdSol |-> row.CtdSol,
         Inventario |-> inventario, Transito |-> transito, Faltante |-> faltante,
         FaltanteConTransito |-> conTrans,
         Estatus |-> IF conTrans = 0 THEN "Completo" ELSE "Incompleto" ]

\* execute from the filter to the report, on a cache miss
ResultadoCasoUso(tablaPedidos, tablaInventarios) ==
    LET filtrados == FiltrarPedidos(tablaPedidos)
        inv       == FiltrarND(tablaInventarios)
        filas     == [ k \in 1..Len(filtrados) |->
                         FilaCasoUso(filtrados[k], MapaInventario(inv), MapaTransito(inv)) ]
        EsCompleto(row) == row.Estatus = "Completo"
        EsIncompleto(row) == row.Estatus = "Incompleto"
    IN [ pedidos        |-> filas,
         completos      |-> SelectSeq(filas, EsCompleto),
         incompletos    |-> SelectSeq(filas, EsIncompleto),
         reporte_marcas |-> ReporteMarcas(filas) ]

\* The columns execute reads: _preprocesar_pedidos, the filter, the ledger
\* (columns of the inventory file), the vectorised allocation and the report
ColumnasCasoUso ==
    { "Embarque", "Liberacion", "Muestra", "Descripcion", "Nombre 1",
      "Carac. Planif.", "Disponible", "Traslado", "Material", "Pendiente",
      "Marca", "Pedido", "Ctd. Sol." }

\* execute(archivo_pedidos, archivo_inventarios)
Ejecutar ==
    /\ pc = "inicio"
    /\ LET key == CacheKey(<<columnas, pedidos0>>, inventarios0)
           g   == CacheGet(cache, expiry, key, reloj)
           res == IF g.hay THEN g.valor ELSE ResultadoCasoUso(pedidos, inventarios)
           s   == IF g.hay THEN [cache |-> g.cache, expiry |-> g.expiry]
                  ELSE CacheSet(g.cache, g.expiry, key, res, TTL_CACHE, reloj)
           inv == IF g.hay THEN inventarios ELSE FiltrarND(inventarios)
       IN /\ g.hay \/ ColumnasCasoUso \subseteq columnas
          /\ pedidos' = res.pedidos
          /\ ultimo' = IF g.hay THEN ultimo
                       ELSE Historial(ultimo, key, res, TTL_CACHE, reloj)
          /\ retorno' = IF g.hay
                        THEN [ op |-> "get", clave |-> key, hora |-> reloj,
                               hay |-> TRUE, valor |-> g.valor ]
                        ELSE [ op |-> "set", clave |-> key, hora |-> reloj,
                               hay |-> FALSE, valor |-> "None" ]
          /\ completos' = res.completos
          /\ incompletos' = res.incompletos
          /\ reporte_marcas' = res.reporte_marcas
          /\ cache' = s.cache
          /\ expiry' = s.expiry
          /\ inventarios' = inv
          /\ mapa_inventario' = IF g.hay THEN mapa_inventario ELSE MapaInventario(inv)
          /\ mapa_transito' = IF g.hay THEN mapa_transito ELSE MapaTransito(inv)
          /\ inventario0' = IF g.hay THEN inventario0 ELSE MapaInventario(inv)
          /\ transito0' = IF g.hay THEN transito0 ELSE MapaTransito(inv)
    /\ pc' = "fin"
    /\ UNCHANGED <<idx, pedidos0, inventarios0, mapeo_marcas, columnas, reloj>>

\* The order file of execute: the columns it reads
FilasCasoUso ==
    { [ Muestra |-> m, Descripcion |-> MARCA_PRIVADA, Nombre1 |-> "Cliente Uno",
        Pedido |-> doc, Marca |-> MARCA_PRIVADA, Material |-> mat,
        Pendiente |-> cant, CtdSol |-> cant ] :
        m \in {"", "X"}, doc \in Documentos, mat \in Materiales, cant \in Cantidades }

\* One call of execute on a new use case, the inventory file of one record at most
InitCasoUso ==
    /\ \E n \in 0..MaxLineas : \E t \in [1..n -> FilasCasoUso] :
       \E r \in 0..1 : \E inv \in [1..r -> RegistrosInventario] :
          Cargado([ k \in 1..n |-> [ i \in DOMAIN t[k] \cup {"Indice"} |->
                                       IF i = "Indice" THEN k ELSE t[k][i] ] ],
                  [ k \in 1..r |-> RegistroConIndice(inv[k], k) ], << >>)
    /\ columnas = ColumnasCasoUso

SpecCasoUso == InitCasoUso /\ [][Ejecutar]_vars

(* ---------------------------------------------------------------------- *)
(* InMemoryCacheManager on its own: set, get and the passing of time       *)
(* ---------------------------------------------------------------------- *)

Claves == {"k1", "k2"}
Valores == {"v1", "v2"}

\* The ttl arguments: none (None or 0, both false in `if ttl:`) or the hour
Plazos == {0, TTL_CACHE}

\* cache_manager.set(key, value, ttl)
CachePoner ==
    /\ pc = "fin"
    /\ \E key \in Claves : \E value \in Valores : \E ttl \in Plazos :
         LET s == CacheSet(cache, expiry, key, value, ttl, reloj)
         IN /\ cache' = s.cache
            /\ expiry' = s.expiry
            /\ ultimo' = Historial(ultimo, key, value, ttl, reloj)
            /\ retorno' = [ op |-> "set", clave |-> key, hora |-> reloj, hay |-> FALSE,
                            valor |-> "None" ]
    /\ UNCHANGED <<pedidos, mapa_inventario, mapa_transito, inventario0, transito0,
                   idx, pc, completos, incompletos, pedidos0, inventarios, inventarios0,
                   mapeo_marcas, reporte_marcas, columnas, reloj>>

\* cache_manager.get(key)
CacheLeer ==
    /\ pc = "fin"
    /\ \E key \in Claves :
         LET g == CacheGet(cache, expiry, key, reloj)
         IN /\ cache' = g.cache
            /\ expiry' = g.expiry
            /\ retorno' = [ op |-> "get", clave |-> key, hora |-> reloj, hay |-> g.hay,
                            valor |-> IF g.hay THEN g.valor ELSE "None" ]
    /\ UNCHANGED <<pedidos, mapa_inventario, mapa_transito, inventario0, transito0,
                   idx, pc, completos, incompletos, pedidos0, inventarios, inventarios0,
                   mapeo_marcas, reporte_marcas, columnas, reloj, ultimo>>

\* Time passes between two calls, half an hour at a time
Tic ==
    /\ pc \in {"fin", "error"}
    /\ reloj < MaxTics * (TTL_CACHE \div 2)
    /\ reloj' = reloj + (TTL_CACHE \div 2)
    /\ UNCHANGED <<pedidos, mapa_inventario, mapa_transito, inventario0, transito0,
                   idx, pc, completos, incompletos, pedidos0, inventarios, inventarios0,
                   mapeo_marcas, reporte_marcas, columnas, cache, expiry, ultimo, retorno>>

InitCache ==
    /\ pedidos = << >>
    /\ mapa_inventario = << >>
    /\ mapa_transito = << >>
    /\ inventario0 = << >>
    /\ transito0 = << >>
    /\ idx = 1
    /\ pc = "fin"
    /\ completos = << >>
    /\ incompletos = << >>
    /\ pedidos0 = << >>
    /\ inventarios = << >>
    /\ inventarios0 = << >>
    /\ mapeo_marcas = << >>
    /\ reporte_marcas = << >>
    /\ columnas = ColumnasPedido
    /\ CacheVacio

NextCache == CachePoner \/ CacheLeer \/ Tic

SpecCache == InitCache /\ [][NextCache]_vars

\* Variant: a partial result is stored under the call's key before the failure
FallarCasoUso_GuardaParcial ==
    /\ pc = "inicio"
    /\ LET key == CacheKey(<<columnas, pedidos0>>, inventarios0)
           g   == CacheGet(cache, expiry, key, reloj)
           s   == CacheSet(g.cache, g.expiry, key,
                           [ pedidos |-> pedidos, completos |-> << >>,
                             incompletos |-> << >>, reporte_marcas |-> << >> ],
                           TTL_CACHE, reloj)
       IN /\ ~g.hay
          /\ ~(ColumnasCasoUso \subseteq columnas)
          /\ cache' = s.cache
          /\ expiry' = s.expiry
          /\ retorno' = [ op |-> "get", clave |-> key, hora |-> reloj, hay |-> FALSE,
                          valor |-> "None" ]
    /\ pc' = "error"
    /\ UNCHANGED <<pedidos, mapa_inventario, mapa_transito, inventario0, transito0,
                   idx, completos, incompletos, pedidos0, inventarios, inventarios0,
                   mapeo_marcas, reporte_marcas, columnas, reloj, ultimo>>

\* execute raises: a column read by one of its stages is absent, the except
\* clause wraps the error and nothing is returned or stored
FallarCasoUso ==
    /\ pc = "inicio"
    /\ LET key == CacheKey(<<columnas, pedidos0>>, inventarios0)
           g   == CacheGet(cache, expiry, key, reloj)
       IN /\ ~g.hay
          /\ ~(ColumnasCasoUso \subseteq columnas)
          /\ cache' = g.cache
          /\ expiry' = g.expiry
          /\ retorno' = [ op |-> "get", clave |-> key, hora |-> reloj, hay |-> FALSE,
                          valor |-> "None" ]
    /\ pc' = "error"
    /\ UNCHANGED <<pedidos, mapa_inventario, mapa_transito, inventario0, transito0,
                   idx, completos, incompletos, pedidos0, inventarios, inventarios0,
                   mapeo_marcas, reporte_marcas, columnas, reloj, ultimo>>

\* The files of the repeated calls: an order file of one line at most, with
\* all columns or with one column of one stage missing, and one inventory file
TablasLlamada ==
    { << >> } \cup
    { << [ Indice |-> 1, Muestra |-> "", Descripcion |-> MARCA_PRIVADA,
           Nombre1 |-> "Cliente Uno", Pedido |-> "D1", Marca |-> MARCA_PRIVADA,
           Material |-> "M1", Pendiente |-> cant, CtdSol |-> cant ] >> :
        cant \in Cantidades }

ColumnasLlamada ==
    { ColumnasCasoUso } \cup
    { ColumnasCasoUso \ {c} : c \in {"Embarque", "Muestra", "Traslado", "Pendiente", "Marca"} }

\* A new call of execute on the same use case object
Llamar ==
    /\ pc \in {"fin", "error"}
    /\ \E t \in TablasLlamada : \E cols \in ColumnasLlamada :
         /\ pedidos' = t
         /\ pedidos0' = t
         /\ columnas' = cols
    /\ inventarios' = InventarioFijo
    /\ inventarios0' = InventarioFijo
    /\ mapa_inventario' = << >>
    /\ mapa_transito' = << >>
    /\ inventario0' = << >>
    /\ transito0' = << >>
    /\ completos' = << >>
    /\ incompletos' = << >>
    /\ reporte_marcas' = << >>
    /\ pc' = "inicio"
    /\ UNCHANGED <<idx, mapeo_marcas, cache, expiry, reloj, ultimo, retorno>>

InitLlamadas ==
    /\ \E t \in TablasLlamada : Cargado(t, InventarioFijo, << >>)
    /\ columnas \in ColumnasLlamada

NextLlamadas == Ejecutar \/ FallarCasoUso \/ Llamar \/ Tic

\* execute called again and again on one use case object, time passing
SpecLlamadas == InitLlamadas /\ [][NextLlamadas]_vars

\* Runs of three lines on ordinary lines, to follow one pool to exhaustion
InitAgotamiento ==
    /\ \E n \in 0..(MaxLineas + 1) :
          pedidos \in [1..n -> { FilaInicial("D1", mat, cant, "ZFER", "P1") :
                                   mat \in Materiales, cant \in Cantidades }]
    /\ \E inv \in TablasInventario :
         /\ mapa_inventario = [m \in DOMAIN inv |-> inv[m].Disponible]
         /\ mapa_transito = [m \in DOMAIN inv |-> inv[m].Traslado]
    /\ inventario0 = mapa_inventario
    /\ transito0 = mapa_transito
    /\ idx = 1
    /\ pc = "bucle"
    /\ completos = << >>
    /\ incompletos = << >>
    /\ pedidos0 = << >>
    /\ inventarios = << >>
    /\ inventarios0 = << >>
    /\ mapeo_marcas = << >>
    /\ reporte_marcas = << >>
    /\ columnas = ColumnasPedido
    /\ CacheVacio

SpecAgotamiento == InitAgotamiento /\ [][Next]_vars

\* Runs on the lines of one order, bypass lines included: the loop never
\* reads the order identifier
InitIntercambio ==
    /\ \E n \in 0..MaxLineas :
          pedidos \in [1..n -> { FilaInicial("D1", mat, cant, tipo, planta) :
                                   mat \in Materiales, cant \in Cantidades,
                                   tipo \in TiposMaterial, planta \in Plantas }]
    /\ \E inv \in TablasInventario :
         /\ mapa_inventario = [m \in DOMAIN inv |-> inv[m].Disponible]
         /\ mapa_transito = [m \in DOMAIN inv |-> inv[m].Traslado]
    /\ inventario0 = mapa_inventario
    /\ transito0 = mapa_transito
    /\ idx = 1
    /\ pc = "bucle"
    /\ completos = << >>
    /\ incompletos = << >>
    /\ pedidos0 = << >>
    /\ inventarios = << >>
    /\ inventarios0 = << >>
    /\ mapeo_marcas = << >>
    /\ reporte_marcas = << >>
    /\ columnas = ColumnasPedido
    /\ CacheVacio

SpecIntercambio == InitIntercambio /\ [][Next]_vars

(* ---------------------------------------------------------------------- *)
(* Helpers of the properties                                               *)
(* ---------------------------------------------------------------------- *)

\* A bypass line: direct-ship material type, or plant P5
EsBypass(row) == row.TipoMaterial = "ZCOM" \/ row.Planta = "P5"

\* Rows the loop has already processed
Procesadas == 1..(idx - 1)

FinBucle == idx > Len(pedidos)

\* Value of a pool for a material, 0 when the material has no entry
Valor(mapa, mat) == IF mat \in DOMAIN mapa THEN mapa[mat] ELSE 0

RECURSIVE ConsumidoAntes(_, _, _)
\* On-hand quantity credited to the rows before row k that request mat
ConsumidoAntes(tabla, mat, k) ==
    IF k <= 1 THEN 0
    ELSE ConsumidoAntes(tabla, mat, k - 1)
         + (IF tabla[k - 1].Material = mat
            THEN tabla[k - 1].Pendiente - tabla[k - 1].Faltante ELSE 0)

\* On-hand allocation of a row as the conservation law counts it
AsignadoInventario(row) == IF EsBypass(row) THEN 0 ELSE row.Pendiente - row.Faltante

\* Transit allocation of a row as the conservation law counts it
AsignadoTransito(row) == IF EsBypass(row) THEN 0 ELSE row.Faltante - row.FaltanteTransito

RECURSIVE SumaAsignadoInventario(_, _, _)
SumaAsignadoInventario(tabla, mat, n) ==
    IF n = 0 THEN 0
    ELSE SumaAsignadoInventario(tabla, mat, n - 1)
         + (IF tabla[n].Material = mat THEN AsignadoInventario(tabla[n]) ELSE 0)

RECURSIVE SumaAsignadoTransito(_, _, _)
SumaAsignadoTransito(tabla, mat, n) ==
    IF n = 0 THEN 0
    ELSE SumaAsignadoTransito(tabla, mat, n - 1)
         + (IF tabla[n].Material = mat THEN AsignadoTransito(tabla[n]) ELSE 0)

\* The run of Scenario A: one material with on-hand 10 and transit 5, two
\* ordinary lines requesting 8 and then 5
EscenarioA ==
    /\ inventario0 = [m \in {"M1"} |-> 10]
    /\ transito0 = [m \in {"M1"} |-> 5]
    /\ Len(pedidos) = 2
    /\ \A k \in 1..2 : pedidos[k].Material = "M1" /\ ~EsBypass(pedidos[k])
    /\ pedidos[1].Pendiente = 8
    /\ pedidos[2].Pendiente = 5

(* ---------------------------------------------------------------------- *)
(* Properties                                                              *)
(* ---------------------------------------------------------------------- *)

\* C1: lines are allocated one at a time; the inventory level a processed
\* line records equals the initial on-hand value of its material minus the
\* on-hand quantity (requested minus shortage) taken by the earlier lines of
\* that material; Scenario A ends with shortages 0 and 3, shortage after
\* transit 0 and 0, and pools on-hand 0, transit 2.
C1_NivelObservado ==
    /\ \A k \in Procesadas :
         pedidos[k].Material \in DOMAIN inventario0 =>
            pedidos[k].Inventario =
               inventario0[pedidos[k].Material]
                  - ConsumidoAntes(pedidos, pedidos[k].Material, k)
    /\ (EscenarioA /\ FinBucle) =>
         /\ pedidos[1].Faltante = 0 /\ pedidos[2].Faltante = 3
         /\ pedidos[1].FaltanteTransito = 0 /\ pedidos[2].FaltanteTransito = 0
         /\ mapa_inventario["M1"] = 0 /\ mapa_transito["M1"] = 2

C1_Testigo ==
    /\ EscenarioA /\ pc = "fin"
    /\ pedidos[1].Inventario = 10 /\ pedidos[2].Inventario = 2

\* C2: with non-negative inventory and requested quantities, every value of
\* the on-hand pool and of the in-transit pool is >= 0 after every line.
C2_NoNegativo ==
    /\ \A m \in DOMAIN mapa_inventario : mapa_inventario[m] >= 0
    /\ \A m \in DOMAIN mapa_transito : mapa_transito[m] >= 0

\* a processed line asked for more than both pools held: both were clamped
C2_Testigo ==
    \E k \in Procesadas :
        /\ pedidos[k].Inventario > 0 /\ pedidos[k].Faltante > 0
        /\ pedidos[k].Transito > 0 /\ pedidos[k].FaltanteTransito > 0
        /\ mapa_inventario[pedidos[k].Material] = 0
        /\ mapa_transito[pedidos[k].Material] = 0

\* C3: on-hand conservation at the end of a run: for every material the
\* initial on-hand value equals the final value plus the sum of the lines'
\* on-hand allocations, a bypass line counting 0.
C3_ConservacionInventario ==
    pc = "fin" =>
        \A m \in DOMAIN inventario0 :
            inventario0[m] =
               mapa_inventario[m] + SumaAsignadoInventario(pedidos, m, Len(pedidos))

\* C4: in-transit conservation at the end of a run: for every material the
\* initial in-transit value equals the final value plus the sum of the lines'
\* transit allocations, a bypass line counting 0.
C4_ConservacionTransito ==
    pc = "fin" =>
        \A m \in DOMAIN transito0 :
            transito0[m] =
               mapa_transito[m] + SumaAsignadoTransito(pedidos, m, Len(pedidos))

\* C5: for every non-bypassed line, also one whose material has no pool
\* entry, requested quantity = decrease of the on-hand pool by that line +
\* the line's recorded shortage.
C5_IdentidadFaltante ==
    [][ (ProcesarLinea /\ ~EsBypass(pedidos[idx])) =>
           pedidos[idx].Pendiente =
              (Valor(mapa_inventario, pedidos[idx].Material)
                 - Valor(mapa_inventario', pedidos[idx].Material))
              + pedidos'[idx].Faltante ]_vars

\* C6: for every non-bypassed line, recorded shortage = decrease of the
\* in-transit pool by that line + the line's recorded shortage after transit.
C6_IdentidadTransito ==
    [][ (ProcesarLinea /\ ~EsBypass(pedidos[idx])) =>
           pedidos'[idx].Faltante =
              (Valor(mapa_transito, pedidos[idx].Material)
                 - Valor(mapa_transito', pedidos[idx].Material))
              + pedidos'[idx].FaltanteTransito ]_vars

\* an ordinary line whose shortage the transit stock covers only in part
C6_Testigo ==
    \E k \in Procesadas :
        /\ ~EsBypass(pedidos[k])
        /\ pedidos[k].Transito > 0
        /\ pedidos[k].FaltanteTransito > 0
        /\ pedidos[k].Faltante = pedidos[k].Transito + pedidos[k].FaltanteTransito

\* C7: a line whose material has no entry in the pools is allocated zero:
\* its shortage and its shortage after transit equal its requested quantity,
\* and its order is incomplete.
C7_MaterialAusente ==
    \A k \in Procesadas :
        (~EsBypass(pedidos[k]) /\ pedidos[k].Material \notin DOMAIN inventario0) =>
            /\ pedidos[k].Faltante = pedidos[k].Pendiente
            /\ pedidos[k].FaltanteTransito = pedidos[k].Pendiente
            /\ pc = "fin" => pedidos[k].Estatus = "Incompleto"

\* C8: for every bypass line the shortage and the shortage after transit
\* recorded at the end of the loop are both 0, whatever the pools hold.
C8_BypassSinFaltante ==
    FinBucle =>
        \A k \in 1..Len(pedidos) :
            EsBypass(pedidos[k]) =>
                pedidos[k].Faltante = 0 /\ pedidos[k].FaltanteTransito = 0

\* C9: processing a bypass line leaves both pools unchanged for every
\* material.
C9_BypassNoTocaPools ==
    [][ (ProcesarLinea /\ EsBypass(pedidos[idx])) =>
           (mapa_inventario' = mapa_inventario /\ mapa_transito' = mapa_transito) ]_vars

\* C10: in the final classified table every bypass line keeps its bypass
\* tag, 'ZCOM' for the direct-ship type and 'P5/Expo' for plant P5.
C10_BypassConservaHorario ==
    pc = "fin" =>
        \A k \in 1..Len(pedidos) :
            /\ pedidos[k].TipoMaterial = "ZCOM" => pedidos[k].HorarioEntrega = "ZCOM"
            /\ (pedidos[k].TipoMaterial # "ZCOM" /\ pedidos[k].Planta = "P5") =>
                  pedidos[k].HorarioEntrega = "P5/Expo"
\* Positions of the rows of a table that belong to an order
LineasDe(tabla, doc) == { k \in 1..Len(tabla) : tabla[k].DocVentas = doc }

RECURSIVE SumaFT(_, _)
\* Sum of the shortage after transit over a set of rows of the order table
SumaFT(tabla, S) ==
    IF S = {} THEN 0
    ELSE LET k == CHOOSE x \in S : TRUE
         IN tabla[k].FaltanteTransito + SumaFT(tabla, S \ {k})

\* C11: in the classified table every line of an order carries 'Completo'
\* if and only if the sum of shortage after transit over all lines of that
\* order is exactly 0; otherwise every line of the order carries 'Incompleto'.
C11_EstatusPorSuma ==
    pc = "fin" =>
        \A k \in 1..Len(pedidos) :
            /\ pedidos[k].Estatus \in {"Completo", "Incompleto"}
            /\ pedidos[k].Estatus = "Completo"
                  <=> SumaFT(pedidos, LineasDe(pedidos, pedidos[k].DocVentas)) = 0

\* a complete order next to an incomplete one, and an order of two lines
\* that is incomplete although one of its lines has no shortage
C11_Testigo ==
    /\ pc = "fin"
    /\ Len(pedidos) = 2
    /\ \/ /\ pedidos[1].DocVentas # pedidos[2].DocVentas
          /\ pedidos[1].Estatus = "Completo" /\ pedidos[2].Estatus = "Incompleto"
       \/ /\ pedidos[1].DocVentas = pedidos[2].DocVentas
          /\ pedidos[1].FaltanteTransito = 0 /\ pedidos[2].FaltanteTransito > 0
          /\ pedidos[1].Estatus = "Incompleto"

\* C19: in the final classified table every non-bypass line has the tag
\* 'Transito' if and only if its shortage is greater than 0 and its shortage
\* after transit is 0; every other non-bypass line has the empty tag.
C19_HorarioTransito ==
    pc = "fin" =>
        \A k \in 1..Len(pedidos) :
            ~EsBypass(pedidos[k]) =>
                IF pedidos[k].Faltante > 0 /\ pedidos[k].FaltanteTransito = 0
                THEN pedidos[k].HorarioEntrega = "Transito"
                ELSE pedidos[k].HorarioEntrega = ""

\* an ordinary line covered by transit next to one that transit does not cover
C19_Testigo ==
    /\ pc = "fin"
    /\ \E k \in 1..Len(pedidos) :
          ~EsBypass(pedidos[k]) /\ pedidos[k].HorarioEntrega = "Transito"
    /\ \E k \in 1..Len(pedidos) :
          /\ ~EsBypass(pedidos[k]) /\ pedidos[k].FaltanteTransito > 0
          /\ pedidos[k].HorarioEntrega = ""

\* C20: the complete-orders view holds exactly one row for each order whose
\* status is complete and no row for an incomplete order, however many lines
\* the order has.
C20_UnaFilaPorCompleto ==
    pc = "fin" =>
        \A d \in Documentos :
            Cardinality({ k \in 1..Len(completos) : completos[k].DocVentas = d })
               = IF \E j \in 1..Len(pedidos) :
                       pedidos[j].DocVentas = d /\ pedidos[j].Estatus = "Completo"
                 THEN 1 ELSE 0

\* a complete order of two lines shows up as one row
C20_Testigo ==
    /\ pc = "fin"
    /\ Len(pedidos) = 2
    /\ pedidos[1].DocVentas = pedidos[2].DocVentas
    /\ pedidos[1].Estatus = "Completo"
    /\ Len(completos) = 1
(* ---------------------------------------------------------------------- *)
(* Properties of the preparation steps                                     *)
(* ---------------------------------------------------------------------- *)

Preparado == pc # "inicio"

\* The loaded order record a row of the working table comes from
Origen(row) == pedidos0[row.Indice]

\* Brand of a loaded record after the lookup in the brand table
MarcaTrasMapeo(r0) ==
    IF r0.Solic \in DOMAIN mapeo_marcas THEN mapeo_marcas[r0.Solic] ELSE r0.Descripcion

PrioridadTrasMapeo(r0) ==
    IF MarcaTrasMapeo(r0) = "Producto de Catalogo Americano" THEN 0 ELSE 1

\* The sort key of a loaded record
Clave(r0) ==
    << r0.Embarque, IF r0.DocVentas = "D1" THEN 1 ELSE 2, PrioridadTrasMapeo(r0) >>

\* Strict lexicographic order of two keys
MenorLex(x, y) ==
    \/ x[1] < y[1]
    \/ x[1] = y[1] /\ x[2] < y[2]
    \/ x[1] = y[1] /\ x[2] = y[2] /\ x[3] < y[3]

\* Row i of the working table is allocated before row j
AsignadaAntes(i, j) == i < j

\* C12: the loop visits the surviving lines in ascending order of (shipment
\* date, order identifier, brand priority): of two lines, the one with the
\* strictly smaller key is allocated first.
C12_OrdenDeAsignacion ==
    Preparado =>
        \A i, j \in 1..Len(pedidos) :
            MenorLex(Clave(Origen(pedidos[i])), Clave(Origen(pedidos[j])))
               => AsignadaAntes(i, j)

\* two lines given in descending key order, both allocated, the second one
\* of the input first
C12_Testigo ==
    /\ FinBucle /\ Preparado
    /\ Len(pedidos) = 2
    /\ pedidos[1].Indice > pedidos[2].Indice
    /\ pedidos[1].Embarque = pedidos[2].Embarque
    /\ pedidos[1].DocVentas # pedidos[2].DocVentas
    /\ pedidos[1].Faltante = 0 /\ pedidos[2].Faltante > 0

\* C13: the brand override is applied before the sort: among lines of equal
\* shipment date and order identifier, the line whose brand after the
\* override is the American catalog brand is allocated before a line whose
\* brand after the override is another one, and the line carries the
\* overridden brand in the table.
C13_MapeoAntesDeOrdenar ==
    Preparado =>
        \A i, j \in 1..Len(pedidos) :
            LET a == Origen(pedidos[i])
                b == Origen(pedidos[j])
            IN /\ ( /\ a.Embarque = b.Embarque
                    /\ a.DocVentas = b.DocVentas
                    /\ PrioridadTrasMapeo(a) < PrioridadTrasMapeo(b) )
                  => AsignadaAntes(i, j)
               /\ a.Solic \in DOMAIN mapeo_marcas
                     => pedidos[i].Descripcion = mapeo_marcas[a.Solic]

\* a line of the private brand, mapped to the American catalog brand, passes
\* a line of the private brand that was given before it
C13_Testigo ==
    /\ FinBucle /\ Preparado
    /\ Len(pedidos) = 2
    /\ pedidos[1].Indice > pedidos[2].Indice
    /\ Origen(pedidos[1]).Descripcion = "Marca privada Exp."
    /\ Origen(pedidos[2]).Descripcion = "Marca privada Exp."
    /\ pedidos[1].Descripcion = "Producto de Catalogo Americano"
    /\ pedidos[1].Embarque = pedidos[2].Embarque
    /\ pedidos[1].DocVentas = pedidos[2].DocVentas

\* C14: for every surviving line the resulting brand is the brand table's
\* value for the line's requester when the requester is a key of the table,
\* and the line's original brand when it is not.
C14_MarcaResultante ==
    Preparado =>
        \A k \in 1..Len(pedidos) :
            LET r0 == Origen(pedidos[k])
            IN IF r0.Solic \in DOMAIN mapeo_marcas
               THEN pedidos[k].Descripcion = mapeo_marcas[r0.Solic]
               ELSE pedidos[k].Descripcion = r0.Descripcion

\* one line whose brand was replaced and one whose requester is unknown
C14_Testigo ==
    /\ Preparado
    /\ \E k \in 1..Len(pedidos) :
          /\ Origen(pedidos[k]).Solic \in DOMAIN mapeo_marcas
          /\ pedidos[k].Descripcion # Origen(pedidos[k]).Descripcion
    /\ \E k \in 1..Len(pedidos) :
          /\ Origen(pedidos[k]).Solic \notin DOMAIN mapeo_marcas
          /\ pedidos[k].Descripcion = Origen(pedidos[k]).Descripcion

\* C15: two lines of equal (shipment date, order identifier, brand priority)
\* are allocated in their input order.
C15_OrdenEstable ==
    Preparado =>
        \A i, j \in 1..Len(pedidos) :
            ( /\ Clave(Origen(pedidos[i])) = Clave(Origen(pedidos[j]))
              /\ pedidos[i].Indice < pedidos[j].Indice )
               => AsignadaAntes(i, j)

\* two tied lines compete for the stock: the earlier record is served, the
\* later one is short
C15_Testigo ==
    /\ FinBucle /\ Preparado
    /\ Len(pedidos) = 2
    /\ Clave(Origen(pedidos[1])) = Clave(Origen(pedidos[2]))
    /\ pedidos[1].Indice < pedidos[2].Indice
    /\ pedidos[1].Faltante = 0 /\ pedidos[2].Faltante > 0

\* C16: a loaded order record reaches the allocation loop if and only if its
\* sample flag is not 'X', its original brand is one of the two allowed
\* brands and its customer name does not contain 'James Palin'; a line whose
\* overridden brand is outside the allowed brands is still kept.
C16_FiltroPedidos ==
    Preparado =>
        \A k \in 1..Len(pedidos0) :
            Cardinality({ j \in 1..Len(pedidos) : pedidos[j].Indice = k })
               = IF /\ pedidos0[k].Muestra # "X"
                    /\ pedidos0[k].Descripcion
                          \in {"Marca privada Exp.", "Producto de Catalogo Americano"}
                    /\ pedidos0[k].Nombre1 # "Ferreteria James Palin SA"
                 THEN 1 ELSE 0

\* a kept line whose overridden brand is not an allowed brand, next to a
\* record that was filtered out
C16_Testigo ==
    /\ FinBucle /\ Preparado
    /\ Len(pedidos0) = 2 /\ Len(pedidos) = 1
    /\ pedidos[1].Descripcion = "Marca X"

\* Positions of the loaded inventory records of a material that are not ND
RegistrosUtiles(mat) ==
    { k \in 1..Len(inventarios0) :
        inventarios0[k].Material = mat /\ inventarios0[k].Carac # "ND" }

\* C17: no inventory record flagged 'ND' contributes to a pool: the initial
\* pool values of a material are the quantities of a record that is not ND,
\* and a material whose only records are ND has no pool entry.
C17_SinRegistrosND ==
    Preparado =>
        /\ \A mat \in DOMAIN inventario0 :
              \E k \in RegistrosUtiles(mat) :
                  /\ inventarios0[k].Disponible = inventario0[mat]
                  /\ inventarios0[k].Traslado = transito0[mat]
        /\ \A mat \in Materiales :
              RegistrosUtiles(mat) = {} =>
                  mat \notin DOMAIN inventario0 /\ mat \notin DOMAIN transito0
        /\ \A k \in 1..Len(inventarios) : inventarios[k].Carac # "ND"

\* a material with only ND records has no entry; another has a usable record
\* before an ND record of other quantities
C17_Testigo ==
    /\ Preparado
    /\ DOMAIN inventario0 = {"M1"}
    /\ \E k \in 1..Len(inventarios0) : inventarios0[k].Material = "M2"
    /\ \E k \in 1..Len(inventarios0) :
          /\ inventarios0[k].Material = "M1" /\ inventarios0[k].Carac = "ND"
          /\ inventarios0[k].Disponible # inventario0["M1"]
          /\ \A j \in RegistrosUtiles("M1") : j < k

\* C18: among the records that are not ND, the record of a material at
\* center EXPO is dropped if and only if the centers of that material
\* include both EXPO and LARE; every other record is kept.
C18_DeduplicacionCentros ==
    Preparado =>
        \A k \in 1..Len(inventarios0) :
            inventarios0[k].Carac # "ND" =>
                LET centros == { inventarios0[j].Centro :
                                   j \in RegistrosUtiles(inventarios0[k].Material) }
                    queda == \E j \in 1..Len(inventarios) :
                                 inventarios[j].Indice = inventarios0[k].Indice
                IN ~queda <=> ( /\ inventarios0[k].Centro = "EXPO"
                                /\ "EXPO" \in centros /\ "LARE" \in centros )

\* the EXPO record of a material also at LARE is dropped, the EXPO record of
\* a material that is not at LARE is kept
C18_Testigo ==
    /\ Preparado
    /\ Len(inventarios0) = 3 /\ Len(inventarios) = 2
    /\ \A k \in 1..3 : inventarios0[k].Carac # "ND"
    /\ \E k \in 1..2 : inventarios[k].Centro = "EXPO"
    /\ \E k \in 1..2 : inventarios[k].Centro = "LARE"
(* ---------------------------------------------------------------------- *)
(* Properties of the views, the pools over the run, and the variants       *)
(* ---------------------------------------------------------------------- *)

\* A row belongs in the incomplete view
EnIncompletos(row) ==
    /\ row.Estatus = "Incompleto"
    /\ (row.Faltante > 0 \/ row.HorarioEntrega = "Transito")

\* C21: a line is in the incomplete-orders view if and only if its order is
\* incomplete and the line has a shortage > 0 or the tag 'Transito'; the
\* lines of an incomplete order that have no shortage are left out.
C21_VistaIncompletos ==
    pc = "fin" =>
        /\ \A k \in 1..Len(incompletos) : EnIncompletos(incompletos[k])
        /\ \A k \in 1..Len(pedidos) :
              EnIncompletos(pedidos[k]) =>
                  \E j \in 1..Len(incompletos) : incompletos[j] = pedidos[k]
        /\ Len(incompletos)
              = Cardinality({ k \in 1..Len(pedidos) : EnIncompletos(pedidos[k]) })

\* an incomplete order of two lines, of which only the short one is listed
C21_Testigo ==
    /\ pc = "fin"
    /\ Len(pedidos) = 2
    /\ pedidos[1].DocVentas = pedidos[2].DocVentas
    /\ pedidos[1].Estatus = "Incompleto"
    /\ pedidos[1].Faltante = 0 /\ pedidos[2].Faltante > 0
    /\ incompletos = << pedidos[2] >>

\* C27: on the same allocation results the every-line-complete rule of
\* main.py marks an order complete exactly when the sum of the shortage
\* after transit over its lines is 0.
C27_ReglasEquivalentes ==
    pc = "fin" =>
        \A k \in 1..Len(pedidos) :
            EstadoPedidoMain(pedidos, pedidos[k].DocVentas) = "Completo"
               <=> SumaFT(pedidos, LineasDe(pedidos, pedidos[k].DocVentas)) = 0

\* C28: with non-negative quantities no step of the run raises the on-hand
\* or the in-transit value of any material.
C28_PoolsNoCrecen ==
    [][ /\ \A m \in DOMAIN mapa_inventario :
              m \in DOMAIN mapa_inventario' /\ mapa_inventario'[m] <= mapa_inventario[m]
        /\ \A m \in DOMAIN mapa_transito :
              m \in DOMAIN mapa_transito' /\ mapa_transito'[m] <= mapa_transito[m] ]_vars

\* a line took stock from both pools
C28_Testigo ==
    \E k \in Procesadas :
        /\ pedidos[k].Material \in DOMAIN inventario0
        /\ mapa_inventario[pedidos[k].Material] < inventario0[pedidos[k].Material]
        /\ mapa_transito[pedidos[k].Material] < transito0[pedidos[k].Material]

\* The table with rows i and i + 1 exchanged
Intercambiar(tabla, i) ==
    [ k \in 1..Len(tabla) |->
        IF k = i THEN tabla[i + 1] ELSE IF k = i + 1 THEN tabla[i] ELSE tabla[k] ]

\* The table as it enters the loop
Entrada(tabla) ==
    [ k \in 1..Len(tabla) |->
        [tabla[k] EXCEPT !.Inventario = 0, !.Transito = 0, !.Faltante = 0,
                         !.FaltanteTransito = 0, !.Estatus = "", !.HorarioEntrega = ""] ]

\* C29: exchanging two adjacent lines of different materials changes no
\* line's recorded inventory, transit, shortage or shortage after transit
\* and no final pool value.
C29_MaterialesNoInterfieren ==
    (pc = "bucle" /\ FinBucle) =>
        \A i \in 1..(Len(pedidos) - 1) :
            pedidos[i].Material # pedidos[i + 1].Material =>
                LET otra == Bucle(Intercambiar(Entrada(pedidos), i),
                                  inventario0, transito0, 1)
                IN /\ otra.tabla = Intercambiar(pedidos, i)
                   /\ otra.inv = mapa_inventario
                   /\ otra.tra = mapa_transito

\* two adjacent lines of different materials, each served from its own pool,
\* one of them short
C29_Testigo ==
    /\ pc = "bucle" /\ FinBucle
    /\ Len(pedidos) = 2
    /\ pedidos[1].Material # pedidos[2].Material
    /\ pedidos[1].Inventario = 10 /\ pedidos[1].Faltante = 0
    /\ pedidos[2].Inventario = 0 /\ pedidos[2].Faltante > 0
    /\ pedidos[2].Transito > 0
    /\ mapa_inventario[pedidos[1].Material] < inventario0[pedidos[1].Material]
    /\ mapa_transito[pedidos[2].Material] < transito0[pedidos[2].Material]

\* C30: with non-negative quantities, once a line records a positive
\* shortage for a material the on-hand value of that material is 0 for the
\* rest of the run: every later line of the material observes inventory 0
\* and records its full requested quantity as shortage.
C30_Agotamiento ==
    \A k \in Procesadas :
        (pedidos[k].Faltante > 0 /\ pedidos[k].Material \in DOMAIN inventario0) =>
            /\ mapa_inventario[pedidos[k].Material] = 0
            /\ \A j \in Procesadas :
                  (j > k /\ pedidos[j].Material = pedidos[k].Material) =>
                      /\ pedidos[j].Inventario = 0
                      /\ pedidos[j].Faltante = pedidos[j].Pendiente

\* stock of 10: a line of 5 is served, a line of 8 is short and empties the
\* pool, the third line finds nothing
C30_Testigo ==
    /\ Len(pedidos) = 3 /\ FinBucle
    /\ \A k \in 1..3 : pedidos[k].Material = "M1"
    /\ pedidos[1].Inventario = 10 /\ pedidos[1].Faltante = 0
    /\ pedidos[2].Inventario = 5 /\ pedidos[2].Faltante = 3
    /\ pedidos[3].Inventario = 0 /\ pedidos[3].Faltante = pedidos[3].Pendiente
\* C22: the brand report never fails on a brand whose total requested
\* quantity is 0: its percentage shortage is 0 or NaN, and every brand of the
\* table has its row, with a number as percentage shortage when its total
\* is positive.
C22_MarcaSinCantidad ==
    pc = "fin" =>
        \A k \in 1..Len(pedidos) :
            LET marca == pedidos[k].Descripcion
                total == SumaMarca([j \in 1..Len(pedidos) |-> Renombrada(pedidos[j])],
                                   marca, "CtdSol", Len(pedidos))
            IN /\ marca \in DOMAIN reporte_marcas
               /\ total = 0 => reporte_marcas[marca].PctFaltante \in {Num(0), NaN}
               /\ total > 0 => reporte_marcas[marca].PctFaltante.clase = "num"

\* one brand with total 0 next to a brand with a positive total
C22_Testigo ==
    /\ pc = "fin"
    /\ DOMAIN reporte_marcas = MARCAS_PERMITIDAS
    /\ reporte_marcas[MARCA_PRIVADA].ValorTotal = Num(0)
    /\ reporte_marcas[MARCA_PRIVADA].PctFaltante = NaN
    /\ reporte_marcas[MARCA_AMERICANA].ValorTotal = Num(8)
    /\ reporte_marcas[MARCA_AMERICANA].PctFaltante = Num(0)

\* C23: if a required column of the order file (sample flag, brand, customer
\* name, requester, material, material type, plant, requested quantity,
\* shipment date, release date) is absent, procesar fails and returns no
\* output table.
C23_ColumnaAusenteFalla ==
    (\E c \in { "Muestra", "Descripcion", "Nombre 1", "Solic.", "Material",
                 "Tipo material", "Planta", " Pendiente", "Embarque", "Liberacion" } :
         c \notin columnas)
      => /\ pc # "fin"
         /\ completos = << >> /\ incompletos = << >> /\ reporte_marcas = << >>
RECURSIVE Acreditado(_, _, _)
\* Requested quantity minus shortage, summed over the first k lines of a material
Acreditado(tabla, mat, k) ==
    IF k = 0 THEN 0
    ELSE (IF tabla[k].Material = mat THEN tabla[k].Pendiente - tabla[k].Faltante ELSE 0)
            + Acreditado(tabla, mat, k - 1)

\* C25: in execute no line takes stock already claimed by an earlier line:
\* for every material the on-hand quantity credited to its lines (requested
\* quantity minus shortage, summed) is at most the material's on-hand quantity.
C25_SinDobleAsignacion ==
    pc = "fin" =>
        \A mat \in Materiales :
            Acreditado(pedidos, mat, Len(pedidos)) <= ValorMapa(mapa_inventario, mat)

\* C26: in execute no order identifier is both in the complete table and in
\* the incomplete table.
C26_PedidoEnUnaTabla ==
    pc = "fin" =>
        \A i \in 1..Len(completos) : \A j \in 1..Len(incompletos) :
            completos[i].Pedido # incompletos[j].Pedido
(* ---------------------------------------------------------------------- *)
(* Properties of the ledger, the counts and the cache                      *)
(* ---------------------------------------------------------------------- *)

\* The loaded records of a material that survive the ND filter and the
\* center deduplication
Sobrevivientes(mat) ==
    { k \in RegistrosUtiles(mat) :
        ~( /\ inventarios0[k].Centro = "EXPO"
           /\ \E j \in RegistrosUtiles(mat) : inventarios0[j].Centro = "LARE" ) }

\* C31: when a material has more than one surviving inventory record, its
\* initial on-hand and in-transit values are the quantities of the last such
\* record in input order, not a sum over the records.
C31_UltimoRegistroGana ==
    Preparado =>
        \A mat \in Materiales :
            Sobrevivientes(mat) # {} =>
                LET posicion == CHOOSE k \in Sobrevivientes(mat) :
                                  \A j \in Sobrevivientes(mat) : j <= k
                IN /\ mat \in DOMAIN inventario0
                   /\ inventario0[mat] = inventarios0[posicion].Disponible
                   /\ transito0[mat] = inventarios0[posicion].Traslado

\* two surviving records of M1, 10 on hand first and 5 in transit last
C31_Testigo ==
    /\ Preparado
    /\ Sobrevivientes("M1") = {1, 2}
    /\ inventarios0[1].Disponible = 10 /\ inventarios0[2].Disponible = 0
    /\ inventarios0[1].Traslado = 0 /\ inventarios0[2].Traslado = 5
    /\ inventario0["M1"] = 0 /\ transito0["M1"] = 5
\* len(tabla['Pedido'].unique()): the order identifiers of a table
PedidosUnicos(tabla) == { tabla[k].DocVentas : k \in 1..Len(tabla) }

\* C32: every order identifier of the classified table is in exactly one of
\* the complete view and the incomplete view, so the total order count is the
\* complete count plus the incomplete count; every incomplete order has a
\* line with shortage > 0.
C32_ParticionDeVistas ==
    pc = "fin" =>
        /\ PedidosUnicos(completos) \cup PedidosUnicos(incompletos) = PedidosUnicos(pedidos)
        /\ PedidosUnicos(completos) \cap PedidosUnicos(incompletos) = {}
        /\ Cardinality(PedidosUnicos(pedidos))
              = Cardinality(PedidosUnicos(completos)) + Cardinality(PedidosUnicos(incompletos))
        /\ \A k \in 1..Len(pedidos) :
              pedidos[k].Estatus = "Incompleto" =>
                  \E j \in LineasDe(pedidos, pedidos[k].DocVentas) : pedidos[j].Faltante > 0

\* one complete and one incomplete order, each in its own view
C32_Testigo ==
    /\ pc = "fin"
    /\ Len(pedidos) = 2
    /\ pedidos[1].Estatus = "Completo" /\ pedidos[2].Estatus = "Incompleto"
    /\ PedidosUnicos(completos) = {pedidos[1].DocVentas}
    /\ PedidosUnicos(incompletos) = {pedidos[2].DocVentas}
\* A count of the report, a missing count read as 0
Conteo(celda) == IF celda.clase = "num" THEN celda.valor ELSE 0

\* C33: in the brand summary every order of a brand is counted as exactly one
\* of complete or incomplete: for every brand, distinct complete orders plus
\* distinct incomplete orders equals distinct orders.
C33_ConteoPorMarca ==
    pc = "fin" =>
        \A marca \in DOMAIN reporte_marcas :
            Conteo(reporte_marcas[marca].PedidosCompletos)
              + Conteo(reporte_marcas[marca].PedidosIncompletos)
                = Conteo(reporte_marcas[marca].TotalPedidos)
\* A step of get: its key and its answer are in retorno'
PasoLeer == retorno'.op = "get" /\ reloj' = reloj

\* A step of set: its key is in retorno'
PasoPoner == retorno'.op = "set" /\ reloj' = reloj

\* The expiry time the cache holds for key k has passed
Expirada(k) == k \in DOMAIN expiry /\ reloj > expiry[k]

Vencida(k) == ultimo[k].ttl > 0 /\ reloj > ultimo[k].hora + ultimo[k].ttl

\* C35: an entry stored with set(key, value, ttl), ttl > 0, is returned by
\* get up to its expiry time and never after it; a get after expiry returns
\* None and leaves the key in neither map, until the key is set again.
C35_Expiracion ==
    [][ PasoLeer =>
          LET k == retorno'.clave
          IN (k \in DOMAIN ultimo /\ ultimo[k].ttl > 0) =>
                IF Vencida(k)
                THEN /\ ~retorno'.hay
                     /\ k \notin DOMAIN cache' /\ k \notin DOMAIN expiry'
                ELSE retorno'.hay /\ retorno'.valor = ultimo[k].valor ]_vars

\* an entry with ttl was returned at its expiry time, and a later get found
\* it expired and removed it
C35_Testigo ==
    /\ "k1" \in DOMAIN ultimo /\ ultimo["k1"].ttl = TTL_CACHE /\ ultimo["k1"].hora = 0
    /\ reloj > TTL_CACHE
    /\ retorno.op = "get" /\ retorno.clave = "k1" /\ retorno.hora = reloj
    /\ ~retorno.hay
    /\ "k1" \notin DOMAIN cache /\ "k1" \notin DOMAIN expiry

\* C36: after set(key, value) with no ttl, get(key) returns that value at
\* every later time until the key is set again, whatever sets were made on
\* the key before.
C36_SinPlazoNoExpira ==
    [][ PasoLeer =>
          LET k == retorno'.clave
          IN (k \in DOMAIN ultimo /\ ultimo[k].ttl = 0) =>
                retorno'.hay /\ retorno'.valor = ultimo[k].valor ]_vars
\* The key of the call in progress or just ended: the contents of both files
ClaveLlamada == << <<columnas, pedidos0>>, inventarios0 >>

\* C37: execute called again with the same contents of both files within
\* 3600 seconds of a successful call returns the stored result without
\* recomputing (nothing is stored again); after the 3600 seconds the result
\* is recomputed and stored again.
C37_ResultadoEnCache ==
    [][ (pc = "inicio" /\ pc' = "fin" /\ ClaveLlamada \in DOMAIN ultimo) =>
          IF reloj <= ultimo[ClaveLlamada].hora + TTL_CACHE
          THEN /\ pedidos' = ultimo[ClaveLlamada].valor.pedidos
               /\ completos' = ultimo[ClaveLlamada].valor.completos
               /\ incompletos' = ultimo[ClaveLlamada].valor.incompletos
               /\ reporte_marcas' = ultimo[ClaveLlamada].valor.reporte_marcas
               /\ UNCHANGED <<cache, expiry, ultimo>>
          ELSE /\ ultimo'[ClaveLlamada].hora = reloj
               /\ cache'[ClaveLlamada] = [ pedidos |-> pedidos', completos |-> completos',
                                          incompletos |-> incompletos',
                                          reporte_marcas |-> reporte_marcas' ]
               /\ expiry'[ClaveLlamada] = reloj + TTL_CACHE ]_vars

\* a second call half an hour after the first returned the stored result
C37_Testigo ==
    /\ pc = "fin"
    /\ ClaveLlamada \in DOMAIN ultimo
    /\ retorno.op = "get" /\ retorno.hay /\ retorno.clave = ClaveLlamada
    /\ retorno.hora > ultimo[ClaveLlamada].hora
    /\ pedidos # << >> /\ pedidos = retorno.valor.pedidos

\* C38: when execute raises, at whatever stage, no entry for the call's key
\* is written to the cache and no other entry changes, so a later call with
\* the same files computes again.
C38_FalloAtomico ==
    [][ (pc = "inicio" /\ pc' = "error") =>
          /\ ClaveLlamada \notin DOMAIN cache'
          /\ ClaveLlamada \notin DOMAIN expiry'
          /\ \A k \in DOMAIN cache' : k \in DOMAIN cache /\ cache'[k] = cache[k] ]_vars

\* a call failed on a file without the report's brand column, after another
\* call had stored its result
C38_Testigo ==
    /\ pc = "error"
    /\ "Marca" \notin columnas
    /\ cache # << >>
    /\ ClaveLlamada \notin DOMAIN cache
====
